---- MODULE Spec2Model ----
(***************************************************************************)
(* RangeIterator (src/nodes/nodes.py): a stateful cursor that a workflow   *)
(* host executes repeatedly.  Each execution of range_iterator compares    *)
(* its arguments with the stored snapshot, possibly resets, reads the      *)
(* value at the stored index, computes the next index by mode (cycle,      *)
(* bounce, once), stores it and returns (current, next, cycle_completed).  *)
(*                                                                         *)
(* Python values are represented as follows.                               *)
(*   None            <<>>            (Some(x) is <<x>>)                    *)
(*   str             a sequence of one-character strings                   *)
(*   int / float     [kind, m, e]: the decimal m * 10^(-e)                 *)
(*   list            a sequence                                            *)
(***************************************************************************)
EXTENDS Integers, Sequences, FiniteSets, TLC

VARIABLES
    current_index,          \* self.current_index: None or Some(int)
    direction,              \* self.direction: 1 or -1
    cycle_completed,        \* self.cycle_completed
    prev_custom_values,     \* self.prev_custom_values: str
    prev_start,             \* self.prev_start: None or Some(int)
    prev_end,               \* self.prev_end
    prev_step,              \* self.prev_step
    prev_mode,              \* self.prev_mode: "None" or a mode
    prev_value_list_hash,   \* self.prev_value_list_hash: None or Some(int)
    inputs,                 \* the node's input values as the host passes them
    ret,                    \* outcome of the latest execution
    obs,                    \* what the latest execution read and decided
    ncalls,                 \* position of the latest execution in a steady run
    settled,                \* the host has stopped changing the inputs
    twin,                   \* a second cursor, set aside while the first executes
    threads                 \* the executions in progress when calls are not serialized

vars == <<current_index, direction, cycle_completed, prev_custom_values,
          prev_start, prev_end, prev_step, prev_mode, prev_value_list_hash,
          inputs, ret, obs, ncalls, settled, twin, threads>>

\* one cursor, with the host's view of it
cursor_vars == <<current_index, direction, cycle_completed, prev_custom_values,
                 prev_start, prev_end, prev_step, prev_mode, prev_value_list_hash,
                 inputs, ret, obs, ncalls>>

(***************************************************************************)
(* Bounds of the model.                                                    *)
(***************************************************************************)
MaxStart == 3
MaxEnd == 3
MaxStep == 3
MaxIndex == 8
MaxCalls == 7
MaxLead == 2
MaxRounds == 3

None == <<>>
Some(x) == <<x>>

Min(a, b) == IF a < b THEN a ELSE b

(***************************************************************************)
(* Numbers.                                                                *)
(***************************************************************************)
IntVal(n) == [kind |-> "int", m |-> n, e |-> 0]
FloatVal(m, e) == [kind |-> "float", m |-> m, e |-> e]
NoValue == [kind |-> "none", m |-> 0, e |-> 0]

\* float with trailing fractional zeros dropped (1.50 and 1.5 are one float)
RECURSIVE Canon(_)
Canon(x) ==
    IF x.e > 0 /\ x.m % 10 = 0 THEN Canon([x EXCEPT !.m = x.m \div 10, !.e = x.e - 1])
    ELSE x

\* int(x) if x == int(x) else x
Normalize(x) == IF x.e = 0 THEN IntVal(x.m) ELSE x

(***************************************************************************)
(* Strings: str.split(','), str.strip(), float(str).                       *)
(***************************************************************************)
Digits == {"0", "1", "2", "3", "4", "5", "6", "7", "8", "9"}

DigitVal(c) ==
    CASE c = "0" -> 0 [] c = "1" -> 1 [] c = "2" -> 2 [] c = "3" -> 3
      [] c = "4" -> 4 [] c = "5" -> 5 [] c = "6" -> 6 [] c = "7" -> 7
      [] c = "8" -> 8 [] c = "9" -> 9

RECURSIVE Split(_, _)
Split(s, sep) ==
    IF \A i \in 1..Len(s) : s[i] # sep THEN <<s>>
    ELSE LET k == CHOOSE i \in 1..Len(s) :
                      s[i] = sep /\ \A j \in 1..(i - 1) : s[j] # sep
         IN  <<SubSeq(s, 1, k - 1)>> \o Split(SubSeq(s, k + 1, Len(s)), sep)

RECURSIVE Strip(_)
Strip(s) ==
    IF s = <<>> THEN s
    ELSE IF Head(s) = " " THEN Strip(Tail(s))
    ELSE IF s[Len(s)] = " " THEN Strip(SubSeq(s, 1, Len(s) - 1))
    ELSE s

\* the literals float() accepts among strings of digits and '.':
\* digits with at most one '.', and at least one digit
IsFloatLiteral(s) ==
    /\ \A i \in 1..Len(s) : s[i] \in Digits \cup {"."}
    /\ Cardinality({i \in 1..Len(s) : s[i] = "."}) <= 1
    /\ \E i \in 1..Len(s) : s[i] \in Digits

RECURSIVE DigitsValue(_)
DigitsValue(s) ==
    IF s = <<>> THEN 0 ELSE 10 * DigitsValue(SubSeq(s, 1, Len(s) - 1)) + DigitVal(s[Len(s)])

\* float(s) for a literal s
Float(s) ==
    LET dots == {i \in 1..Len(s) : s[i] = "."}
        ds   == SelectSeq(s, LAMBDA c : c # ".")
        e    == IF dots = {} THEN 0 ELSE Len(s) - (CHOOSE i \in dots : TRUE)
    IN  Canon(FloatVal(DigitsValue(ds), e))

\* a faulty variant of the parse: the elements float() rejects are skipped
ParseSkipsBadElements(custom_values) ==
    IF Strip(custom_values) = <<>> THEN None
    ELSE LET toks == Split(custom_values, ",")
             strs == [i \in 1..Len(toks) |-> Strip(toks[i])]
             good == SelectSeq(strs, IsFloatLiteral)
         IN  Some([i \in 1..Len(good) |-> Normalize(Float(good[i]))])

\* lines 158-170: None when custom_values is blank or float() raises ValueError
ParseCustomValues(custom_values) ==
    IF Strip(custom_values) = <<>> THEN None
    ELSE LET toks == Split(custom_values, ",")
             strs == [i \in 1..Len(toks) |-> Strip(toks[i])]
         IN  IF \E i \in 1..Len(strs) : ~IsFloatLiteral(strs[i]) THEN None
             ELSE Some([i \in 1..Len(strs) |-> Normalize(Float(strs[i]))])

(***************************************************************************)
(* hash(str(value_list)).                                                  *)
(***************************************************************************)
RECURSIVE IntStr(_)
IntStr(n) ==
    LET d == <<"0", "1", "2", "3", "4", "5", "6", "7", "8", "9">>
    IN  IF n < 10 THEN <<d[n + 1]>> ELSE IntStr(n \div 10) \o <<d[(n % 10) + 1]>>

\* str of an int element (the supplied lists of this model hold ints)
Repr(x) == IntStr(x.m)

RECURSIVE Joined(_)
Joined(l) ==
    IF l = <<>> THEN <<>>
    ELSE IF Len(l) = 1 THEN Repr(l[1])
    ELSE Repr(l[1]) \o <<",", " ">> \o Joined(Tail(l))

Str(l) == <<"[">> \o Joined(l) \o <<"]">>

Ord(c) ==
    CASE c = " " -> 32 [] c = "," -> 44 [] c = "." -> 46
      [] c = "[" -> 91 [] c = "]" -> 93
      [] c \in Digits -> 48 + DigitVal(c)

\* a string hash: a polynomial in the character codes
RECURSIVE Hash(_)
Hash(s) ==
    IF s = <<>> THEN 0
    ELSE (31 * Hash(SubSeq(s, 1, Len(s) - 1)) + Ord(s[Len(s)])) % 65521

Fingerprint(value_list) == Hash(Str(value_list))

(***************************************************************************)
(* The arguments the host passes.                                          *)
(***************************************************************************)
Modes == {"cycle", "bounce", "once"}

\* custom_values texts: "", "4,x", "5, 6.5", "5,6.5"
CustomTexts ==
    { <<>>,
      <<"4", ",", "x">>,
      <<"5", ",", " ", "6", ".", "5">>,
      <<"5", ",", "6", ".", "5">> }

\* value_list arguments: None, [], [7], [7, 8]
ValueLists ==
    { None, Some(<<>>), Some(<<IntVal(7)>>), Some(<<IntVal(7), IntVal(8)>>) }

\* the parse of each text and the hash of each list, computed once
custom_list_of == [t \in CustomTexts |-> ParseCustomValues(t)]
hash_of == [v \in ValueLists \ {None} |-> Fingerprint(v[1])]

(***************************************************************************)
(* Python list indexing: value_list[i] raises IndexError unless            *)
(* -len <= i < len; a negative i counts from the end.                      *)
(***************************************************************************)
ValidIndex(l, i) == -Len(l) <= i /\ i < Len(l)
Item(l, i) == IF i >= 0 THEN l[i + 1] ELSE l[Len(l) + i + 1]

(***************************************************************************)
(* Faulty variants of the change detection: the comparison of step left    *)
(* out; step compared with the stored start; reset_counter left out.       *)
(***************************************************************************)
ShouldResetIgnoringStep(start, end, step, reset_counter, custom_values, mode, value_list) ==
    \/ reset_counter
    \/ custom_values # prev_custom_values
    \/ Some(start) # prev_start
    \/ Some(end) # prev_end
    \/ mode # prev_mode
    \/ (value_list # None /\ Some(hash_of[value_list]) # prev_value_list_hash)

ShouldResetStepAgainstStart(start, end, step, reset_counter, custom_values, mode, value_list) ==
    \/ reset_counter
    \/ custom_values # prev_custom_values
    \/ Some(start) # prev_start
    \/ Some(end) # prev_end
    \/ Some(step) # prev_start
    \/ mode # prev_mode
    \/ (value_list # None /\ Some(hash_of[value_list]) # prev_value_list_hash)

ShouldResetIgnoringMode(start, end, step, reset_counter, custom_values, mode, value_list) ==
    \/ reset_counter
    \/ custom_values # prev_custom_values
    \/ Some(start) # prev_start
    \/ Some(end) # prev_end
    \/ Some(step) # prev_step
    \/ (value_list # None /\ Some(hash_of[value_list]) # prev_value_list_hash)

ShouldResetOnAnyList(start, end, step, reset_counter, custom_values, mode, value_list) ==
    \/ reset_counter
    \/ custom_values # prev_custom_values
    \/ Some(start) # prev_start
    \/ Some(end) # prev_end
    \/ Some(step) # prev_step
    \/ mode # prev_mode
    \/ value_list # None

ShouldResetIgnoringList(start, end, step, reset_counter, custom_values, mode, value_list) ==
    \/ reset_counter
    \/ custom_values # prev_custom_values
    \/ Some(start) # prev_start
    \/ Some(end) # prev_end
    \/ Some(step) # prev_step
    \/ mode # prev_mode

\* faulty variants of lines 153 and 172-175: the hash forgotten when no list
\* is passed; the passed list preferred to the parsed text
NextListHashForgets(value_list) ==
    IF value_list # None THEN Some(hash_of[value_list]) ELSE None

ActiveListIgnoresText(custom_values, value_list) == value_list

ActiveListPrefersSupplied(custom_values, value_list) ==
    LET custom_list == custom_list_of[custom_values]
    IN  IF value_list # None THEN value_list ELSE custom_list

ShouldResetWithoutFlag(start, end, step, reset_counter, custom_values, mode, value_list) ==
    \/ custom_values # prev_custom_values
    \/ Some(start) # prev_start
    \/ Some(end) # prev_end
    \/ Some(step) # prev_step
    \/ mode # prev_mode
    \/ (value_list # None /\ Some(hash_of[value_list]) # prev_value_list_hash)

(***************************************************************************)
(* range_iterator, lines 116-154: change detection.                        *)
(***************************************************************************)
ShouldReset(start, end, step, reset_counter, custom_values, mode, value_list) ==
    \/ reset_counter
    \/ custom_values # prev_custom_values
    \/ Some(start) # prev_start
    \/ Some(end) # prev_end
    \/ Some(step) # prev_step
    \/ mode # prev_mode
    \/ (value_list # None /\ Some(hash_of[value_list]) # prev_value_list_hash)

\* lines 149-154: the stored hash after the call
NextListHash(value_list) ==
    IF value_list # None THEN Some(hash_of[value_list]) ELSE prev_value_list_hash

\* lines 172-174: the list in use, None when there is none
ActiveList(custom_values, value_list) ==
    LET custom_list == custom_list_of[custom_values]
    IN  IF custom_list # None THEN custom_list ELSE value_list

\* line 177
UsingList(value_list) == value_list # None /\ Len(value_list[1]) > 0

\* line 167: end as the mode branches see it
EffectiveEnd(custom_values, end) ==
    LET custom_list == custom_list_of[custom_values]
    IN  IF custom_list # None THEN Len(custom_list[1]) - 1 ELSE end

\* a faulty clamp: one position too low
ClampIndexOffByOne(index, using_list, list_end) ==
    IF using_list /\ index >= list_end THEN list_end - 1 ELSE index

\* lines 187-190
ClampIndex(index, using_list, list_end) ==
    IF using_list /\ index > list_end THEN list_end ELSE index

(***************************************************************************)
(* range_iterator, lines 203-270: the next index by mode.  Each operator   *)
(* gives next_index and the direction and cycle_completed it leaves.       *)
(***************************************************************************)
\* a faulty cycle: wraps on reaching the upper bound, not on passing it
CycleStepWrapsEarly(index, step, dir, using_list, list_end, start, end) ==
    LET next_index == index + (step * dir)
        upper == IF using_list THEN list_end ELSE end
        wrapped == IF using_list THEN next_index % (list_end + 1) ELSE start
    IN  IF next_index >= upper
        THEN [next_index |-> wrapped, direction |-> dir, cycle_completed |-> TRUE]
        ELSE [next_index |-> next_index, direction |-> dir, cycle_completed |-> FALSE]

CycleStep(index, step, dir, using_list, list_end, start, end) ==
    LET next_index == index + (step * dir)
        upper == IF using_list THEN list_end ELSE end
        wrapped == IF using_list THEN next_index % (list_end + 1) ELSE start
    IN  IF next_index > upper
        THEN [next_index |-> wrapped, direction |-> dir, cycle_completed |-> TRUE]
        ELSE [next_index |-> next_index, direction |-> dir, cycle_completed |-> FALSE]

\* a faulty bounce: reports completion on the upper rebound too
BounceStepCompletesAtTop(index, step, dir, using_list, list_end, start, end) ==
    LET next_index == index + (step * dir)
        upper == IF using_list THEN list_end ELSE end
        lower == IF using_list THEN 0 ELSE start
    IN  IF next_index > upper
        THEN [next_index |-> upper - (next_index - upper), direction |-> -1,
              cycle_completed |-> TRUE]
        ELSE IF next_index < lower
        THEN [next_index |-> lower + (lower - next_index), direction |-> 1,
              cycle_completed |-> TRUE]
        ELSE [next_index |-> next_index, direction |-> dir, cycle_completed |-> FALSE]

BounceStep(index, step, dir, using_list, list_end, start, end) ==
    LET next_index == index + (step * dir)
        upper == IF using_list THEN list_end ELSE end
        lower == IF using_list THEN 0 ELSE start
    IN  IF next_index > upper
        THEN [next_index |-> upper - (next_index - upper), direction |-> -1,
              cycle_completed |-> FALSE]
        ELSE IF next_index < lower
        THEN [next_index |-> lower + (lower - next_index), direction |-> 1,
              cycle_completed |-> TRUE]
        ELSE [next_index |-> next_index, direction |-> dir, cycle_completed |-> FALSE]

\* a faulty once: reports completion past the upper bound without stopping there
OnceStepStalls(index, step, dir, using_list, list_end, start, end) ==
    [next_index |-> index, direction |-> dir, cycle_completed |-> FALSE]

OnceStepNoClamp(index, step, dir, using_list, list_end, start, end) ==
    LET next_index == index + step
        upper == IF using_list THEN list_end ELSE end
    IN  IF next_index > upper
        THEN [next_index |-> next_index, direction |-> dir, cycle_completed |-> TRUE]
        ELSE [next_index |-> next_index, direction |-> dir, cycle_completed |-> FALSE]

OnceStep(index, step, dir, using_list, list_end, start, end) ==
    LET next_index == index + step
        upper == IF using_list THEN list_end ELSE end
    IN  IF next_index > upper
        THEN [next_index |-> upper, direction |-> dir, cycle_completed |-> TRUE]
        ELSE [next_index |-> next_index, direction |-> dir, cycle_completed |-> FALSE]

ModeStep(mode, index, step, dir, using_list, list_end, start, end) ==
    CASE mode = "cycle"  -> CycleStep(index, step, dir, using_list, list_end, start, end)
      [] mode = "bounce" -> BounceStep(index, step, dir, using_list, list_end, start, end)
      [] mode = "once"   -> OnceStep(index, step, dir, using_list, list_end, start, end)

\* lines 196-200 and 276-279
ValueAt(using_list, list, index) == IF using_list THEN Item(list, index) ELSE IntVal(index)

(***************************************************************************)
(* How the arguments of an execution compare with those of the execution   *)
(* before it: "first" when there was none, "same" when all seven are       *)
(* equal, "one" when exactly one of start, end, step, mode, custom_values  *)
(* differs and value_list and reset_counter are equal; when value_list     *)
(* alone differs, "supplied" (None before), "withdrawn" (None now) or      *)
(* "replaced"; else "other".                                               *)
(***************************************************************************)
Delta(start, end, step, reset_counter, custom_values, mode, value_list) ==
    LET n(differs) == IF differs THEN 1 ELSE 0
        count == n(start # inputs.start) + n(end # inputs.end) + n(step # inputs.step)
                 + n(custom_values # inputs.custom_values) + n(mode # inputs.mode)
        rest == value_list = inputs.value_list /\ reset_counter = inputs.reset_counter
    IN  IF ret.status = "none" THEN "first"
        ELSE IF count = 0 /\ rest THEN "same"
        ELSE IF count = 1 /\ rest THEN "one"
        ELSE IF count = 0 /\ reset_counter = inputs.reset_counter
        THEN IF inputs.value_list = None THEN "supplied"
             ELSE IF value_list = None THEN "withdrawn"
             ELSE "replaced"
        ELSE "other"

\* the position of an execution in a run of executions with the same
\* arguments that began on the cursor as constructed; 0 outside such a run
\* and beyond MaxCalls
Nth(c) ==
    IF current_index = None THEN 1
    ELSE IF ncalls > 0 /\ ncalls < MaxCalls /\ c = inputs THEN ncalls + 1
    ELSE 0

(***************************************************************************)
(* range_iterator, lines 90-285, as one step.  An IndexError raised by the *)
(* lookup of line 198 leaves the snapshot and the reset in place; one      *)
(* raised by the lookup of line 277 leaves the new index, direction and    *)
(* cycle_completed in place as well.  The locals of the method are bound   *)
(* once each, in the order the method computes them.  The stored index is  *)
(* kept within -MaxIndex..MaxIndex: an execution that would leave it       *)
(* outside is not taken.                                                   *)
(***************************************************************************)
range_iterator(start, end, step, reset_counter, custom_values, mode, value_list) ==
    \E should_reset \in {ShouldReset(start, end, step, reset_counter, custom_values,
                                     mode, value_list)},
       active \in {ActiveList(custom_values, value_list)},
       end_ \in {EffectiveEnd(custom_values, end)} :
    \E using_list \in {UsingList(active)},
       init \in {current_index = None \/ should_reset} :
    \E list \in {IF using_list THEN active[1] ELSE <<>>},
       index0 \in {IF init THEN start ELSE current_index[1]},
       dir0 \in {IF init THEN 1 ELSE direction},
       done0 \in {IF init THEN FALSE ELSE cycle_completed} :
    \E list_end \in {Len(list) - 1} :
    \E index \in {ClampIndex(index0, using_list, list_end)} :
    \E raise198 \in {using_list /\ ~ValidIndex(list, index)},
       s \in {ModeStep(mode, index, step, dir0, using_list, list_end, start, end_)} :
    \E raise277 \in {using_list /\ ~ValidIndex(list, s.next_index)},
       stored \in {IF raise198 THEN index ELSE s.next_index} :
        /\ -MaxIndex <= stored /\ stored <= MaxIndex
        /\ prev_custom_values' = custom_values
        /\ prev_start' = Some(start)
        /\ prev_end' = Some(end)
        /\ prev_step' = Some(step)
        /\ prev_mode' = mode
        /\ prev_value_list_hash' = NextListHash(value_list)
        /\ current_index' = Some(stored)
        /\ direction' = IF raise198 THEN dir0 ELSE s.direction
        /\ cycle_completed' = IF raise198 THEN done0 ELSE s.cycle_completed
        /\ ret' = IF raise198 \/ raise277
                  THEN [status |-> "IndexError", current_value |-> NoValue,
                        next_value |-> NoValue, cycle_completed |-> FALSE]
                  ELSE [status |-> "ok",
                        current_value |-> ValueAt(using_list, list, index),
                        next_value |-> ValueAt(using_list, list, s.next_index),
                        cycle_completed |-> s.cycle_completed]
        /\ obs' = [should_reset |-> should_reset,
                   initialized |-> current_index # None,
                   moved |-> current_index # None /\ current_index # Some(index),
                   index |-> index,
                   direction |-> dir0,
                   stored_direction |-> direction,
                   current_value |-> IF raise198 THEN NoValue
                                     ELSE ValueAt(using_list, list, index),
                   delta |-> Delta(start, end, step, reset_counter, custom_values,
                                   mode, value_list),
                   prev_status |-> ret.status]

\* the latest execution, if any, and whether it returned
Called == ret.status # "none"
Returned == ret.status = "ok"

(***************************************************************************)
(* The host: it holds the node's input values and executes the node with   *)
(* them, after any change of them.                                         *)
(***************************************************************************)
Execute(c) ==
    /\ inputs' = c
    /\ ncalls' = Nth(c)
    /\ range_iterator(c.start, c.end, c.step, c.reset_counter, c.custom_values,
                      c.mode, c.value_list)

\* the arguments of Spec: the ends of each numeric range, two texts
\* ("", "5, 6.5") and two lists (None, [7, 8])
Configs ==
    [start : {0, MaxStart}, end : {1, MaxEnd}, step : {1, MaxStep},
     reset_counter : BOOLEAN,
     custom_values : {<<>>, <<"5", ",", " ", "6", ".", "5">>},
     mode : Modes,
     value_list : {None, Some(<<IntVal(7), IntVal(8)>>)}]

\* the arguments of SpecSteady: every combination within the bounds
SteadyConfigs ==
    [start : 0..MaxStart, end : 1..MaxEnd, step : 1..MaxStep, reset_counter : BOOLEAN,
     custom_values : CustomTexts, mode : Modes, value_list : ValueLists]

\* lines 45-56: the defaults of the inputs
Defaults ==
    [start |-> 0, end |-> 10, step |-> 1, reset_counter |-> FALSE,
     custom_values |-> <<>>, mode |-> "cycle", value_list |-> None]

\* lines 73-88
Fresh ==
    /\ current_index = None
    /\ direction = 1
    /\ cycle_completed = FALSE
    /\ prev_custom_values = <<>>
    /\ prev_start = None
    /\ prev_end = None
    /\ prev_step = None
    /\ prev_mode = "None"
    /\ prev_value_list_hash = None
    /\ ret = [status |-> "none", current_value |-> NoValue, next_value |-> NoValue,
              cycle_completed |-> FALSE]
    /\ obs = [should_reset |-> FALSE, initialized |-> FALSE, moved |-> FALSE,
              index |-> 0, direction |-> 1, stored_direction |-> 1,
              current_value |-> NoValue, delta |-> "first", prev_status |-> "none"]
    /\ ncalls = 0

\* lines 73-88 as a record: a cursor as constructed, with the host's view of it
AsConstructed ==
    [current_index |-> None, direction |-> 1, cycle_completed |-> FALSE,
     prev_custom_values |-> <<>>, prev_start |-> None, prev_end |-> None,
     prev_step |-> None, prev_mode |-> "None", prev_value_list_hash |-> None,
     inputs |-> Defaults,
     ret |-> [status |-> "none", current_value |-> NoValue, next_value |-> NoValue,
              cycle_completed |-> FALSE],
     obs |-> [should_reset |-> FALSE, initialized |-> FALSE, moved |-> FALSE,
              index |-> 0, direction |-> 1, stored_direction |-> 1,
              current_value |-> NoValue, delta |-> "first", prev_status |-> "none"],
     ncalls |-> 0]

\* the callers of a cursor that is executed without serialization
Threads == {1, 2}

\* one host, one cursor, one execution at a time
NoTwin == [kind |-> "none", turn |-> "first", rounds |-> 0, fresh |-> FALSE,
           cursor |-> AsConstructed]
NoThreads == [t \in Threads |-> [pc |-> "idle", calls |-> 0, overlapped |-> FALSE,
                                 index |-> 0, next_index |-> 0, status |-> "none",
                                 current_value |-> NoValue, obs |-> AsConstructed.obs]]
Alone == settled = FALSE /\ twin = NoTwin /\ threads = NoThreads

Init == Fresh /\ inputs = Defaults /\ Alone

Next == (\E c \in Configs : Execute(c)) /\ UNCHANGED <<settled, twin, threads>>

\* the host changes the inputs at will between two executions
Spec == Init /\ [][Next]_vars

\* the host executes the node again and again with the inputs it began with
InitSteady == Fresh /\ inputs \in SteadyConfigs /\ Alone

NextSteady == Execute(inputs) /\ UNCHANGED <<settled, twin, threads>>

SpecSteady == InitSteady /\ [][NextSteady]_vars

\* the arguments of SpecSources: every source of values (three texts, one of
\* them malformed; no list, the empty list and two lists) in every mode,
\* reset_counter false
SourceConfigs ==
    [start : {0, MaxStart}, end : {MaxEnd}, step : {1, MaxStep}, reset_counter : {FALSE},
     custom_values : {<<>>, <<"4", ",", "x">>, <<"5", ",", " ", "6", ".", "5">>},
     mode : Modes,
     value_list : ValueLists]

NextSources == (\E c \in SourceConfigs : Execute(c)) /\ UNCHANGED <<settled, twin, threads>>

\* the host changes the sources of the values at will between two executions
SpecSources == Init /\ [][NextSources]_vars

(***************************************************************************)
(* The host changes the inputs at will, then leaves them alone and goes on *)
(* executing the node: IS_CHANGED (lines 24-35) makes the host execute the *)
(* node on every run of the workflow, whence the fairness.                 *)
(***************************************************************************)
Change == ~settled /\ (\E c \in Configs : Execute(c)) /\ UNCHANGED <<settled, twin, threads>>

Settle == ~settled /\ Called /\ settled' = TRUE /\ UNCHANGED <<cursor_vars, twin, threads>>

Repeat == settled /\ Execute(inputs) /\ UNCHANGED <<settled, twin, threads>>

NextSettle == Change \/ Settle \/ Repeat

SpecSettle == Init /\ [][NextSettle]_vars /\ WF_vars(Repeat)

(***************************************************************************)
(* Two cursors compared.  The cursor that is not executing is set aside in *)
(* twin.cursor; each round executes the first cursor with arguments c and  *)
(* then the second with the arguments Vary(kind, c), which differ from c   *)
(* in one respect: a malformed text replaced by the empty one ("text"),    *)
(* another end ("end"), the empty list replaced by no list ("list").       *)
(* Both cursors start from one state: the cursor as constructed, or as an  *)
(* execution left it.                                                      *)
(***************************************************************************)
Live ==
    [current_index |-> current_index, direction |-> direction,
     cycle_completed |-> cycle_completed, prev_custom_values |-> prev_custom_values,
     prev_start |-> prev_start, prev_end |-> prev_end, prev_step |-> prev_step,
     prev_mode |-> prev_mode, prev_value_list_hash |-> prev_value_list_hash,
     inputs |-> inputs, ret |-> ret, obs |-> obs, ncalls |-> ncalls]

Load(r) ==
    /\ current_index' = r.current_index
    /\ direction' = r.direction
    /\ cycle_completed' = r.cycle_completed
    /\ prev_custom_values' = r.prev_custom_values
    /\ prev_start' = r.prev_start
    /\ prev_end' = r.prev_end
    /\ prev_step' = r.prev_step
    /\ prev_mode' = r.prev_mode
    /\ prev_value_list_hash' = r.prev_value_list_hash
    /\ inputs' = r.inputs
    /\ ret' = r.ret
    /\ obs' = r.obs
    /\ ncalls' = r.ncalls

Malformed == <<"4", ",", "x">>
EmptyList == Some(<<>>)

\* the arguments of the executions before the two cursors part
LeadConfigs ==
    [start : {0}, end : {MaxEnd}, step : {1}, reset_counter : {FALSE},
     custom_values : {<<>>}, mode : Modes,
     value_list : {None, EmptyList, Some(<<IntVal(7), IntVal(8)>>)}]

\* the arguments of the first cursor, by the respect in which the second's differ
PairConfigs(kind) ==
    CASE kind = "text" ->
            [start : {0}, end : {MaxEnd}, step : {1, MaxStep}, reset_counter : BOOLEAN,
             custom_values : {Malformed, <<"5", ",", " ", "6", ".", "5">>},
             mode : Modes, value_list : {None, Some(<<IntVal(7), IntVal(8)>>)}]
      [] kind = "end" ->
            [start : {0, MaxStart}, end : {1, MaxEnd}, step : 1..MaxStep,
             reset_counter : {FALSE},
             custom_values : {<<>>, <<"5", ",", " ", "6", ".", "5">>},
             mode : Modes, value_list : {None, Some(<<IntVal(7), IntVal(8)>>)}]
      [] kind = "list" ->
            [start : {0, MaxStart}, end : {MaxEnd}, step : {1, MaxStep},
             reset_counter : BOOLEAN, custom_values : {<<>>, Malformed},
             mode : Modes, value_list : {EmptyList}]
      [] OTHER -> {}

Vary(kind, c) ==
    CASE kind = "text" ->
            IF c.custom_values = Malformed THEN [c EXCEPT !.custom_values = <<>>] ELSE c
      [] kind = "end" -> [c EXCEPT !.end = IF c.end = 1 THEN MaxEnd ELSE 1]
      [] kind = "list" ->
            IF c.value_list = EmptyList THEN [c EXCEPT !.value_list = None] ELSE c

\* an execution of the one cursor before a second is set beside it
Lead(c) ==
    /\ twin.kind = "none" /\ twin.rounds < MaxLead
    /\ Execute(c)
    /\ twin' = [twin EXCEPT !.rounds = @ + 1]
    /\ UNCHANGED <<settled, threads>>

\* a second cursor in the state of the first; for "end", both as constructed
Fork(kind) ==
    /\ twin.kind = "none"
    /\ kind = "end" => current_index = None
    /\ twin' = [kind |-> kind, turn |-> "first", rounds |-> 0,
                fresh |-> current_index = None, cursor |-> Live]
    /\ UNCHANGED <<cursor_vars, settled, threads>>

\* the first cursor executes; "end" repeats its arguments, "list" compares
\* one execution
First(c) ==
    /\ twin.kind # "none" /\ twin.turn = "first" /\ twin.rounds < MaxRounds
    /\ (twin.kind = "end" /\ Called) => c = inputs
    /\ twin.kind = "list" => twin.rounds = 0
    /\ Execute(c)
    /\ twin' = [twin EXCEPT !.turn = "switch"]
    /\ UNCHANGED <<settled, threads>>

Switch ==
    /\ twin.turn = "switch"
    /\ Load(twin.cursor)
    /\ twin' = [twin EXCEPT !.turn = "second", !.cursor = Live]
    /\ UNCHANGED <<settled, threads>>

\* the second cursor executes with the varied arguments of the first
Second ==
    /\ twin.turn = "second"
    /\ Execute(Vary(twin.kind, twin.cursor.inputs))
    /\ twin' = [twin EXCEPT !.turn = "compared", !.rounds = @ + 1]
    /\ UNCHANGED <<settled, threads>>

Back ==
    /\ twin.turn = "compared"
    /\ Load(twin.cursor)
    /\ twin' = [twin EXCEPT !.turn = "first", !.cursor = Live]
    /\ UNCHANGED <<settled, threads>>

NextPair ==
    \/ \E c \in LeadConfigs : Lead(c)
    \/ \E kind \in {"text", "end", "list"} : Fork(kind)
    \/ \E c \in PairConfigs(twin.kind) : First(c)
    \/ Switch
    \/ Second
    \/ Back

SpecPair == Init /\ [][NextPair]_vars

(***************************************************************************)
(* Two callers execute one cursor with the same arguments and without      *)
(* serialization.  An execution is two steps: Enter is lines 116-193, the  *)
(* change detection, the reset, the clamp and the read of                  *)
(* self.current_index into the local current_index; Leave is lines         *)
(* 195-285, the lookups, the mode branch, which reads self.direction and   *)
(* writes it with self.cycle_completed, and the write of                   *)
(* self.current_index.  The callers execute in rounds, once each.          *)
(***************************************************************************)
RaceConfigs ==
    [start : {0}, end : {MaxEnd}, step : {1, MaxStep}, reset_counter : {FALSE},
     custom_values : {<<>>}, mode : Modes,
     value_list : {None, Some(<<IntVal(7), IntVal(8)>>)}]

Enter(t) ==
    /\ threads[t].pc = "idle"
    /\ \E c \in {inputs} :
       \E should_reset \in {ShouldReset(c.start, c.end, c.step, c.reset_counter,
                                        c.custom_values, c.mode, c.value_list)},
          active \in {ActiveList(c.custom_values, c.value_list)} :
       \E using_list \in {UsingList(active)},
          init \in {current_index = None \/ should_reset} :
       \E list \in {IF using_list THEN active[1] ELSE <<>>},
          index0 \in {IF init THEN c.start ELSE current_index[1]} :
       \E index \in {ClampIndex(index0, using_list, Len(list) - 1)} :
           /\ prev_custom_values' = c.custom_values
           /\ prev_start' = Some(c.start)
           /\ prev_end' = Some(c.end)
           /\ prev_step' = Some(c.step)
           /\ prev_mode' = c.mode
           /\ prev_value_list_hash' = NextListHash(c.value_list)
           /\ current_index' = Some(index)
           /\ direction' = IF init THEN 1 ELSE direction
           /\ cycle_completed' = IF init THEN FALSE ELSE cycle_completed
           /\ threads' =
                 [u \in Threads |->
                    IF u = t
                    THEN [pc |-> "read", calls |-> threads[t].calls + 1,
                          overlapped |-> \E v \in Threads : threads[v].pc = "read",
                          index |-> index, next_index |-> index, status |-> "none",
                          current_value |-> NoValue,
                          obs |-> [should_reset |-> should_reset,
                                   initialized |-> current_index # None,
                                   moved |-> current_index # None
                                             /\ current_index # Some(index),
                                   index |-> index,
                                   direction |-> IF init THEN 1 ELSE direction,
                                   stored_direction |-> direction,
                                   current_value |-> NoValue,
                                   delta |-> IF ret.status = "none" THEN "first"
                                             ELSE "same",
                                   prev_status |-> ret.status]]
                    ELSE IF threads[u].pc = "read"
                    THEN [threads[u] EXCEPT !.overlapped = TRUE]
                    ELSE threads[u]]
    /\ UNCHANGED <<inputs, ret, obs, ncalls, settled, twin>>

Leave(t) ==
    /\ threads[t].pc = "read"
    /\ \E c \in {inputs}, index \in {threads[t].index} :
       \E active \in {ActiveList(c.custom_values, c.value_list)},
          end_ \in {EffectiveEnd(c.custom_values, c.end)} :
       \E using_list \in {UsingList(active)} :
       \E list \in {IF using_list THEN active[1] ELSE <<>>} :
       \E raise198 \in {using_list /\ ~ValidIndex(list, index)},
          s \in {ModeStep(c.mode, index, c.step, direction, using_list, Len(list) - 1,
                          c.start, end_)} :
       \E raise277 \in {using_list /\ ~ValidIndex(list, s.next_index)} :
           /\ -MaxIndex <= s.next_index /\ s.next_index <= MaxIndex
           /\ IF raise198
              THEN UNCHANGED <<current_index, direction, cycle_completed>>
              ELSE /\ current_index' = Some(s.next_index)
                   /\ direction' = s.direction
                   /\ cycle_completed' = s.cycle_completed
           /\ ret' = IF raise198 \/ raise277
                     THEN [status |-> "IndexError", current_value |-> NoValue,
                           next_value |-> NoValue, cycle_completed |-> FALSE]
                     ELSE [status |-> "ok",
                           current_value |-> ValueAt(using_list, list, index),
                           next_value |-> ValueAt(using_list, list, s.next_index),
                           cycle_completed |-> s.cycle_completed]
           /\ obs' = [threads[t].obs EXCEPT
                         !.current_value = IF raise198 THEN NoValue
                                           ELSE ValueAt(using_list, list, index)]
           /\ threads' =
                 [threads EXCEPT
                    ![t].pc = "done",
                    ![t].next_index = IF raise198 THEN index ELSE s.next_index,
                    ![t].status = IF raise198 \/ raise277 THEN "IndexError" ELSE "ok",
                    ![t].current_value = IF raise198 \/ raise277 THEN NoValue
                                         ELSE ValueAt(using_list, list, index)]
    /\ UNCHANGED <<prev_custom_values, prev_start, prev_end, prev_step, prev_mode,
                   prev_value_list_hash, inputs, ncalls, settled, twin>>

\* both callers have returned: the next round
Rejoin ==
    /\ \A t \in Threads : threads[t].pc = "done" /\ threads[t].calls < MaxRounds
    /\ threads' = [t \in Threads |->
                     [threads[t] EXCEPT !.pc = "idle", !.overlapped = FALSE]]
    /\ UNCHANGED <<cursor_vars, settled, twin>>

InitRace == Fresh /\ inputs \in RaceConfigs /\ Alone

NextRace == (\E t \in Threads : Enter(t) \/ Leave(t)) \/ Rejoin

SpecRace == InitRace /\ [][NextRace]_vars

(***************************************************************************)
(* The latest execution, read off its arguments c.                         *)
(***************************************************************************)
\* lines 172-177: the list in use by an execution with arguments c
ListActive(c) == UsingList(ActiveList(c.custom_values, c.value_list))
ListOf(c) == IF ListActive(c) THEN ActiveList(c.custom_values, c.value_list)[1] ELSE <<>>

\* the bounds the mode branches compare with: lines 188, 208-270
UpperOf(c) == IF ListActive(c) THEN Len(ListOf(c)) - 1 ELSE c.end
LowerOf(c) == IF ListActive(c) THEN 0 ELSE c.start

\* lines 181, 187-190: where a reset puts the cursor
StartPosition(c) == IF ListActive(c) THEN Min(c.start, Len(ListOf(c)) - 1) ELSE c.start

ValueOf(c, i) == ValueAt(ListActive(c), ListOf(c), i)

\* lines 205, 224: the candidate index of the latest execution
Candidate == obs.index + (inputs.step * obs.direction)

\* the source of the values: the list in use, or None for the plain range
SourceOf(c) == IF ListActive(c) THEN Some(ListOf(c)) ELSE None

(***************************************************************************)
(* C1.  With a list in use, the stored index is a position of the list,    *)
(* 0..length-1, after every execution that returned.                       *)
(* Fails: a bounce off the last position reflects the candidate to         *)
(* 2*list_end - candidate, which is negative when step > list_end.         *)
(***************************************************************************)
C1_ListIndexInRange ==
    (Returned /\ ListActive(inputs)) =>
        (0 <= current_index[1] /\ current_index[1] <= Len(ListOf(inputs)) - 1)

(***************************************************************************)
(* C2.  With the plain range in use and start <= end, the stored index     *)
(* lies in start..end after every execution.                               *)
(* Fails: a bounce off end reflects the candidate to 2*end - candidate,    *)
(* which is below start when step > end - start.                           *)
(***************************************************************************)
C2_RangeIndexInRange ==
    (Returned /\ ~ListActive(inputs) /\ inputs.start <= inputs.end) =>
        (inputs.start <= current_index[1] /\ current_index[1] <= inputs.end)

(***************************************************************************)
(* C3.  Every execution returns its triple: neither list lookup (line 198, *)
(* line 277) raises IndexError.                                            *)
(* Fails: the reflected index of a bounce can lie outside -len..len-1.     *)
(***************************************************************************)
C3_NeverRaises == ret.status # "IndexError"

(***************************************************************************)
(* C4, as claimed.  Of two consecutive executions that both return, the    *)
(* second not resetting, the second's current value is the first's next    *)
(* value.                                                                  *)
(* Fails when value_list is withdrawn (or supplied again with the stored   *)
(* hash): no reset, yet the index is read in another source.               *)
(***************************************************************************)
C4_CurrentIsPreviousNext ==
    [][(Returned /\ ret'.status = "ok" /\ ~obs'.should_reset)
        => ret'.current_value = ret.next_value]_vars

(***************************************************************************)
(* C4, amended.  Of two consecutive executions that both return, the       *)
(* second not resetting and both reading the same source (the same list,   *)
(* or the plain range), the second's current value is the first's next     *)
(* value.                                                                  *)
(***************************************************************************)
C4_CurrentIsPreviousNextSameSource ==
    [][(Returned /\ ret'.status = "ok" /\ ~obs'.should_reset
        /\ SourceOf(inputs') = SourceOf(inputs))
        => ret'.current_value = ret.next_value]_vars

\* a second execution in list mode that continued where the first left off
C4_Witness ==
    /\ Returned /\ obs.prev_status = "ok" /\ ~obs.should_reset
    /\ obs.delta = "same" /\ ListActive(inputs)
    /\ obs.index # StartPosition(inputs)

\* exactly one of the five compared arguments differs, value_list equal
OneDiffers(c, d) ==
    /\ c.value_list = d.value_list
    /\ Cardinality({f \in {"start", "end", "step", "mode", "custom_values"} :
                       c[f] # d[f]}) = 1

(***************************************************************************)
(* C5.  When exactly one of step, start, end, mode, custom_values differs  *)
(* from the execution before (value_list equal, reset_counter false), the  *)
(* execution resets: it reads the start position with direction +1, and    *)
(* the current value it reads is the value there.                          *)
(***************************************************************************)
C5_OneChangeResets ==
    [][(Called /\ OneDiffers(inputs, inputs') /\ ~inputs'.reset_counter)
        => /\ obs'.should_reset
           /\ obs'.index = StartPosition(inputs')
           /\ obs'.direction = 1
           /\ obs'.current_value = ValueOf(inputs', StartPosition(inputs'))
           /\ (ret'.status = "ok" => ret'.current_value = obs'.current_value)]_vars

\* one argument changed and a position away from the start was given up
C5_Witness ==
    /\ Returned /\ obs.delta = "one" /\ ~inputs.reset_counter
    /\ obs.moved /\ obs.should_reset

\* lines 121-146: the stored snapshot equals the arguments c
SnapshotIs(c) ==
    /\ prev_custom_values = c.custom_values
    /\ prev_start = Some(c.start)
    /\ prev_end = Some(c.end)
    /\ prev_step = Some(c.step)
    /\ prev_mode = c.mode

(***************************************************************************)
(* C6.  On an initialized cursor an execution resets only if               *)
(* reset_counter is set, or one of custom_values, start, end, step, mode   *)
(* differs from the execution before, or a value_list is passed whose hash *)
(* differs from the stored one.  An execution that repeats the arguments   *)
(* of the one before, reset_counter false, does not reset: it keeps the    *)
(* stored direction and reads the stored index (brought down to the end of *)
(* the list by lines 187-190 when it lies beyond).  After every execution  *)
(* the snapshot equals the arguments.                                      *)
(***************************************************************************)
C6_ResetOnlyOnChange ==
    [][Called =>
        /\ obs'.should_reset =>
              \/ inputs'.reset_counter
              \/ \E f \in {"start", "end", "step", "mode", "custom_values"} :
                    inputs'[f] # inputs[f]
              \/ /\ inputs'.value_list # None
                 /\ Some(Fingerprint(inputs'.value_list[1])) # prev_value_list_hash
        /\ (inputs' = inputs /\ ~inputs'.reset_counter) =>
              /\ ~obs'.should_reset
              /\ obs'.direction = direction
              /\ obs'.index = ClampIndex(current_index[1], ListActive(inputs),
                                         Len(ListOf(inputs)) - 1)
              /\ (Returned => obs'.index = current_index[1])
        /\ SnapshotIs(inputs)']_vars

\* a repeated execution that went on from a position away from the start
C6_Witness ==
    /\ Returned /\ obs.prev_status = "ok" /\ obs.delta = "same"
    /\ ~inputs.reset_counter /\ ~obs.should_reset /\ ~obs.moved
    /\ obs.index # StartPosition(inputs)

\* lines 181-285 after a reset: the outcome as a function of the arguments c
OutcomeFromStart(c) ==
    LET i == StartPosition(c)
        s == ModeStep(c.mode, i, c.step, 1, ListActive(c), Len(ListOf(c)) - 1, c.start,
                      EffectiveEnd(c.custom_values, c.end))
    IN  IF ListActive(c) /\ ~ValidIndex(ListOf(c), s.next_index)
        THEN [status |-> "IndexError", current_value |-> NoValue,
              next_value |-> NoValue, cycle_completed |-> FALSE]
        ELSE [status |-> "ok", current_value |-> ValueOf(c, i),
              next_value |-> ValueOf(c, s.next_index),
              cycle_completed |-> s.cycle_completed]

(***************************************************************************)
(* C7.  An execution with reset_counter set resets whatever is stored: it  *)
(* reads the start position with direction +1, and its outcome is the one  *)
(* the mode gives from there, a function of the arguments alone (so equal  *)
(* arguments give equal outcomes).                                         *)
(***************************************************************************)
C7_ResetRequestedRestarts ==
    (Called /\ inputs.reset_counter) =>
        /\ obs.should_reset
        /\ obs.index = StartPosition(inputs)
        /\ obs.direction = 1
        /\ obs.current_value = ValueOf(inputs, StartPosition(inputs))
        /\ ret = OutcomeFromStart(inputs)

\* reset_counter held over two executions with nothing else changed
C7_Witness ==
    /\ Returned /\ inputs.reset_counter /\ obs.delta = "same"
    /\ obs.prev_status = "ok" /\ ret.next_value # ret.current_value

(***************************************************************************)
(* C8.  Cycle mode, plain range, step 1, start <= end, the same arguments  *)
(* from the cursor as constructed: the k-th execution returns              *)
(* current = start + ((k-1) mod N), N = end - start + 1, and               *)
(* cycle_completed exactly when k is a multiple of N.                      *)
(***************************************************************************)
C8_CycleWraps ==
    (/\ ncalls >= 1
     /\ inputs.mode = "cycle" /\ ~ListActive(inputs) /\ inputs.step = 1
     /\ inputs.start <= inputs.end /\ ~inputs.reset_counter) =>
        LET N == inputs.end - inputs.start + 1
        IN  /\ Returned
            /\ ret.current_value = IntVal(inputs.start + ((ncalls - 1) % N))
            /\ ret.cycle_completed = (ncalls % N = 0)

\* the execution after the first wrap of 0..2 is back at 0
C8_Witness ==
    /\ ncalls = 4 /\ inputs.mode = "cycle" /\ ~ListActive(inputs) /\ inputs.step = 1
    /\ inputs.start = 0 /\ inputs.end = 2 /\ ~inputs.reset_counter
    /\ ret.current_value = IntVal(0) /\ ~ret.cycle_completed

AtUpperOnce ==
    Called /\ inputs.mode = "once" /\ obs.index = UpperOf(inputs)

(***************************************************************************)
(* C10.  In once mode an execution that reads the upper bound U as its     *)
(* index returns (value at U, value at U, TRUE) and leaves U stored; the   *)
(* next execution with the same arguments, reset_counter false, reads U    *)
(* again.                                                                  *)
(***************************************************************************)
C10_OnceHolds ==
    [][/\ AtUpperOnce' =>
            /\ ret' = [status |-> "ok",
                       current_value |-> ValueOf(inputs', UpperOf(inputs')),
                       next_value |-> ValueOf(inputs', UpperOf(inputs')),
                       cycle_completed |-> TRUE]
            /\ current_index' = Some(UpperOf(inputs'))
       /\ (AtUpperOnce /\ inputs' = inputs /\ ~inputs.reset_counter) => AtUpperOnce']_vars

\* an execution that found the cursor held at the upper bound, below which it began
C10_Witness ==
    /\ AtUpperOnce /\ obs.delta = "same" /\ ~inputs.reset_counter
    /\ obs.prev_status = "ok" /\ ~obs.should_reset
    /\ StartPosition(inputs) < UpperOf(inputs)

\* lines 161-168: the list parsed from the text c.custom_values, or None
ParsedOf(c) == custom_list_of[c.custom_values]

\* the values a list holds
Elements(list) == {list[i] : i \in 1..Len(list)}

(***************************************************************************)
(* C13.  One source is read per execution, the parsed text before a        *)
(* non-empty value_list before the plain range: when custom_values parses, *)
(* the current and next values returned are elements of the parsed list    *)
(* whatever value_list is; otherwise, when value_list is a non-empty list, *)
(* they are elements of it; otherwise they are the index read and the      *)
(* index stored.                                                           *)
(***************************************************************************)
C13_SourcePrecedence ==
    Returned =>
        IF ParsedOf(inputs) # None
        THEN {ret.current_value, ret.next_value} \subseteq Elements(ParsedOf(inputs)[1])
        ELSE IF inputs.value_list # None /\ Len(inputs.value_list[1]) > 0
        THEN {ret.current_value, ret.next_value} \subseteq Elements(inputs.value_list[1])
        ELSE /\ ret.current_value = IntVal(obs.index)
             /\ ret.next_value = IntVal(current_index[1])

\* two values of the parsed text returned while a non-empty list was passed
C13_Witness ==
    /\ Returned /\ ParsedOf(inputs) # None
    /\ inputs.value_list # None /\ Len(inputs.value_list[1]) > 0
    /\ ret.current_value # ret.next_value

FiveEqual(c, d) ==
    \A f \in {"start", "end", "step", "mode", "custom_values"} : c[f] = d[f]

(***************************************************************************)
(* C18.  An execution without value_list leaves the stored hash as it was  *)
(* and does not reset on account of the list.  So when a list is withdrawn *)
(* (the five compared arguments equal, reset_counter false, no text that   *)
(* parses) the execution goes on in range mode from the index and          *)
(* direction left by list mode, and when a list with the stored hash is    *)
(* passed afterwards the execution does not reset either.                  *)
(***************************************************************************)
C18_NoListNoReset ==
    [][Called =>
        /\ inputs'.value_list = None =>
              /\ prev_value_list_hash' = prev_value_list_hash
              /\ (FiveEqual(inputs, inputs') /\ ~inputs'.reset_counter)
                    => ~obs'.should_reset
        /\ (/\ inputs.value_list # None /\ inputs'.value_list = None
            /\ FiveEqual(inputs, inputs') /\ ~inputs'.reset_counter
            /\ ParsedOf(inputs') = None) =>
              /\ ~obs'.should_reset
              /\ obs'.index = current_index[1]
              /\ obs'.direction = direction
              /\ ret'.status = "ok"
              /\ ret'.current_value = IntVal(current_index[1])
        /\ (/\ inputs'.value_list # None
            /\ Some(hash_of[inputs'.value_list]) = prev_value_list_hash
            /\ FiveEqual(inputs, inputs') /\ ~inputs'.reset_counter)
              => ~obs'.should_reset]_vars

\* a list passed again after its withdrawal, read without a reset
C18_Witness ==
    /\ Returned /\ obs.delta = "supplied" /\ ~obs.should_reset
    /\ ParsedOf(inputs) = None /\ ListActive(inputs) /\ ~inputs.reset_counter

(***************************************************************************)
(* C20.  The hash compared is that of the value_list passed, also when the *)
(* list in use is the one parsed from custom_values: when value_list is    *)
(* replaced by a list of other contents between two executions (the text   *)
(* and every other argument equal, reset_counter false), the execution     *)
(* resets to the start position with direction +1 although the list in use *)
(* is the same.                                                            *)
(***************************************************************************)
C20_SupersededListResets ==
    [][(/\ Called /\ ParsedOf(inputs') # None
        /\ FiveEqual(inputs, inputs') /\ ~inputs'.reset_counter
        /\ inputs.value_list # None /\ inputs'.value_list # None
        /\ inputs'.value_list # inputs.value_list) =>
            /\ obs'.should_reset
            /\ obs'.index = StartPosition(inputs')
            /\ obs'.direction = 1
            /\ ListOf(inputs') = ParsedOf(inputs')[1]
            /\ ListOf(inputs') = ListOf(inputs)]_vars

\* the superseded list replaced, and a position of the parsed list given up
C20_Witness ==
    /\ Returned /\ obs.delta = "replaced" /\ ParsedOf(inputs) # None
    /\ obs.should_reset /\ obs.moved /\ ~inputs.reset_counter

\* the host goes on executing the node with the inputs of the latest
\* execution, a mode among them, reset_counter false
SettledIn(mode) == settled /\ inputs.mode = mode /\ ~inputs.reset_counter

(***************************************************************************)
(* C15.  Once mode, the inputs left alone after any executions,            *)
(* reset_counter false: some later execution returns cycle_completed =     *)
(* TRUE, and every execution after it does.                                *)
(***************************************************************************)
C15_OnceCompletes ==
    SettledIn("once") ~> [](Returned /\ ret.cycle_completed)

\* a cursor that began below the upper bound, was left alone and completed
C15_Witness ==
    /\ SettledIn("once") /\ Returned /\ ret.cycle_completed
    /\ obs.delta = "same" /\ ~obs.should_reset
    /\ StartPosition(inputs) < UpperOf(inputs) /\ current_index = Some(UpperOf(inputs))

(***************************************************************************)
(* C16, the case of a list.  Bounce mode over a list of two elements or    *)
(* more, the inputs left alone, reset_counter false: again and again an    *)
(* execution returns cycle_completed = TRUE.                               *)
(* Fails when step exceeds the last position: the rebound off position 0   *)
(* leaves an index beyond the list and the execution raises IndexError     *)
(* (C3), so that no execution ever returns TRUE.                           *)
(***************************************************************************)
C16_BounceRecurs ==
    (SettledIn("bounce") /\ ListActive(inputs) /\ Len(ListOf(inputs)) >= 2)
        ~> (Returned /\ ret.cycle_completed /\ ~obs.should_reset)

\* both cursors have executed the round: the first is set aside, the second
\* is the one at hand
Compared(kind) == twin.kind = kind /\ twin.turn = "compared"

(***************************************************************************)
(* C11, as claimed.  Two cursors in one state, executed with the same      *)
(* arguments except that the first is passed a text that does not parse    *)
(* where the second is passed the empty text: every execution has the same *)
(* outcome for both.                                                       *)
(* Fails when the state they start from is not that of construction: the   *)
(* text is compared as passed (lines 121-124), so the first execution      *)
(* resets the cursor whose text differs from the stored one, and only it.  *)
(***************************************************************************)
C11_MalformedAsEmpty ==
    Compared("text") => ret = twin.cursor.ret

(***************************************************************************)
(* C11, amended.  Two cursors as constructed, executed with the same       *)
(* arguments except that the first is passed one text that does not parse  *)
(* where the second is passed the empty text: every execution has the same *)
(* outcome for both, and leaves the same index, direction and              *)
(* cycle_completed; the execution with the malformed text reads the        *)
(* value_list if it is a non-empty list, else the plain range.             *)
(***************************************************************************)
C11_MalformedAsEmptyFromConstruction ==
    (Compared("text") /\ twin.fresh) =>
        /\ ret = twin.cursor.ret
        /\ current_index = twin.cursor.current_index
        /\ direction = twin.cursor.direction
        /\ cycle_completed = twin.cursor.cycle_completed
        /\ twin.cursor.inputs.custom_values = Malformed =>
              SourceOf(twin.cursor.inputs) =
                  IF inputs.value_list # None /\ Len(inputs.value_list[1]) > 0
                  THEN inputs.value_list ELSE None

\* the second round of two cursors that went on, one with the malformed text
C11_Witness ==
    /\ Compared("text") /\ twin.fresh /\ twin.rounds = 2
    /\ twin.cursor.inputs.custom_values = Malformed /\ inputs.custom_values = <<>>
    /\ Returned /\ ~obs.should_reset /\ ~twin.cursor.obs.should_reset

(***************************************************************************)
(* C12.  Two cursors as constructed, each executed with its arguments      *)
(* again and again, the same but for end: when custom_values parses, every *)
(* execution has the same outcome for both, and the upper bound is the     *)
(* last position of the parsed list: the index read is not beyond it, and  *)
(* a candidate beyond it wraps (cycle), holds (once) or turns (bounce).    *)
(***************************************************************************)
C12_EndIgnoredWhenParsed ==
    (Compared("end") /\ ParsedOf(inputs) # None) =>
        LET last == Len(ParsedOf(inputs)[1]) - 1
        IN  /\ ret = twin.cursor.ret
            /\ current_index = twin.cursor.current_index
            /\ obs.index <= last
            /\ (Returned /\ inputs.mode \in {"cycle", "once"})
                  => (ret.cycle_completed <=> Candidate > last)
            /\ (Returned /\ inputs.mode = "bounce" /\ Candidate > last)
                  => direction = -1

\* the cursors wrap together although their ends differ
C12_Witness ==
    /\ Compared("end") /\ ParsedOf(inputs) # None /\ twin.rounds = 2
    /\ inputs.end # twin.cursor.inputs.end
    /\ Returned /\ ret.cycle_completed /\ inputs.mode = "cycle"

(***************************************************************************)
(* C19, as claimed.  Two cursors in one state, the first executed with the *)
(* empty list and the second with no list, no text that parses: both       *)
(* executions have the same outcome.                                       *)
(* Fails when the stored hash is not that of the empty list: the empty     *)
(* list is hashed and compared (lines 149-154) and resets the cursor,      *)
(* where no list does not.                                                 *)
(***************************************************************************)
C19_EmptyListAsNoList ==
    Compared("list") => ret = twin.cursor.ret

(***************************************************************************)
(* C19, amended.  An execution with the empty list, no text that parses,   *)
(* looks nothing up in a list: it returns the index read and the index     *)
(* stored.  Its outcome is that of the execution with no list from the     *)
(* same state whenever that one resets too or the stored hash is that of   *)
(* the empty list.                                                         *)
(***************************************************************************)
C19_EmptyListAsNoListUnlessReset ==
    Compared("list") =>
        /\ twin.cursor.ret.status = "ok"
        /\ twin.cursor.ret.current_value = IntVal(twin.cursor.obs.index)
        /\ twin.cursor.ret.next_value = IntVal(twin.cursor.current_index[1])
        /\ (obs.should_reset \/ prev_value_list_hash = Some(hash_of[EmptyList]))
              => ret = twin.cursor.ret

\* both went on from where an execution with the empty list had left the cursor
C19_Witness ==
    /\ Compared("list") /\ ~obs.should_reset /\ ~twin.cursor.obs.should_reset
    /\ prev_value_list_hash = Some(hash_of[EmptyList])
    /\ Returned /\ obs.index # inputs.start

\* a round has ended in which both callers read the same index and returned
\* the same current value, and the index stored is the one each of them
\* computed from it: one step ahead of the index read
LostUpdate ==
    /\ \A t \in Threads : threads[t].pc = "done" /\ threads[t].status = "ok"
    /\ threads[1].index = threads[2].index
    /\ threads[1].current_value = threads[2].current_value
    /\ threads[1].next_index = threads[2].next_index
    /\ current_index = Some(threads[1].next_index)
    /\ threads[1].next_index # threads[1].index

(***************************************************************************)
(* C17.  When two executions of one cursor are interleaved, each reading   *)
(* the stored index, computing and then writing it, an update is lost:     *)
(* both return the same current value and the stored index is one step     *)
(* ahead, not two.  This happens only to executions that overlap: of two   *)
(* executions of a round that ran one after the other, the second read the *)
(* index the first had stored.                                             *)
(***************************************************************************)
C17_LostUpdateOnlyInterleaved ==
    /\ LostUpdate => \E t \in Threads : threads[t].overlapped
    /\ (/\ \A t \in Threads : threads[t].pc = "done" /\ ~threads[t].overlapped
        /\ \E t \in Threads : threads[t].status = "ok")
          => \E t, u \in Threads :
                threads[u].index = ClampIndex(threads[t].next_index, ListActive(inputs),
                                              Len(ListOf(inputs)) - 1)
                /\ current_index = Some(threads[u].next_index)
                /\ t # u

\* an update lost in a round that was not the first
C17_Witness ==
    /\ LostUpdate /\ \A t \in Threads : threads[t].overlapped /\ threads[t].calls = 2
    /\ inputs.mode = "cycle" /\ ~ListActive(inputs)

====
